---- MODULE Spec2Model ----
(***************************************************************************)
(* QuizMaster: the useQuiz session hook (hooks/useQuiz), the Quiz page    *)
(* that drives it (pages/Quiz), the Timer components of the Layout and    *)
(* the question sourcing of utils/api, as a state machine.                *)
(*                                                                         *)
(* React semantics kept by the model:                                      *)
(*  - a handler reads the state of the render it was created in (its      *)
(*    closure) and writes state through setters; functional setters        *)
(*    (prev => ...) read the current state instead;                        *)
(*  - after a handler the component re-renders and its effects run; an    *)
(*    effect with a dependency list runs when a dependency changed;        *)
(*  - a callback handed to setTimeout / a tween keeps the closure of the   *)
(*    render that scheduled it.                                            *)
(* Time is counted in whole seconds.                                       *)
(***************************************************************************)
EXTENDS Integers, Sequences, FiniteSets, TLC

\* ---------------------------------------------------------------- bounds
MaxAmount == 2        \* largest requested number of questions
MaxTimeLimit == 1     \* largest per-question time limit (seconds)
DataSize == 1         \* number of questions in the local dataset
MaxNow == 3           \* the clock stops advancing here
MaxSaves == 2         \* completion-effect runs followed per mount
MaxRestarts == 1      \* restartQuiz calls followed
MaxSlideOuts == 1     \* slide-out tweens in flight
MaxHookNow == 2       \* the clock of the directly called hook stops here
MaxRetries == 3       \* largest maxRetries of a fetchQuestionsWithRetry call
MaxRetryNow == 36     \* the clock of a retried fetch stops here
MaxFetchCalls == 3    \* overlapping fetch calls
MaxFetchNow == 11     \* the clock of the overlapping fetches stops here
MaxBatch == 2         \* addScore calls of one handler
MaxLedgerNow == 1     \* clock readings while the ledger is followed
MaxStatsCalls == 3    \* updateStats calls followed

\* ------------------------------------------------------------- JS values
Undefined == [t |-> "undefined", v |-> 0]
Num(n) == [t |-> "number", v |-> n]
Str(c) == [t |-> "string", v |-> c]
\* a === b
StrictEq(a, b) == a = b

NoDate == -1          \* startTime / endTime null
NoTimer == -1         \* no pending timeout
NaN == -1             \* Math.round(0 / 0 * 100)
NoError == "null"
NoQuestionsFound == "No questions found"
OfflineNotice == "Using offline questions due to connection issues"
RateLimitMessage == "Rate limit exceeded. Please wait a few seconds and try again, or switch to offline mode."
NetworkMessage == "Network error. Please check your internet connection or try offline mode."
NoResultsMessage == "No questions found for the selected criteria. Try different settings or use offline mode."

TimerInstances == 2   \* Layout renders a desktop and a mobile Timer
MIN_REQUEST_INTERVAL == 5    \* seconds between requests
MaxHighScores == 10          \* slice(0, 10)
RetryWaitStep == 3           \* attempt * 3 s before a retry attempt
RateLimitWait == 10          \* seconds waited after a rate-limited attempt
InvalidParameterMessage == "Invalid quiz settings. Please check your configuration."
HttpErrorMessage == "HTTP error! status: 500"
TokenNotFound == "TOKEN_NOT_FOUND"

MaxId == IF DataSize > MaxAmount THEN DataSize ELSE MaxAmount
Ids == 1..MaxId
NoDifficulty == "null"

\* text codes: an HTML-escaped text is EscBase above its decoded form
EscBase == 100
decodeHTMLEntities(text) == IF text >= EscBase THEN text - EscBase ELSE text

\* the bundled dataset, in the documented format
questionsData ==
  [i \in 1..DataSize |->
     [id |-> i,
      difficulty |-> IF i % 2 = 1 THEN "easy" ELSE "hard",
      options |-> <<Str(10 * i + 1), Str(10 * i + 2)>>,
      correctAnswer |-> Num(i % 2)]]

\* the provider's payload for a request of n questions
APIResults(n) ==
  [i \in 1..n |->
     [difficulty |-> "easy",
      correct_answer |-> EscBase + 10 * i + 1,
      incorrect_answers |-> <<10 * i + 2>>]]

\* ------------------------------------------------------------- shuffling
\* every outcome of the Fisher-Yates shuffle
shuffleArray(array) ==
  IF Len(array) = 0 THEN {<<>>}
  ELSE {[i \in 1..Len(array) |-> array[p[i]]] : p \in Permutations(1..Len(array))}

shuffleQuestions(array) == shuffleArray(array)

RECURSIVE MapDecode(_)
MapDecode(s) ==
  IF s = <<>> THEN <<>> ELSE <<Str(decodeHTMLEntities(Head(s)))>> \o MapDecode(Tail(s))

\* one formatted question of fetchQuestionsFromAPI, for each option order
FormatQuestion(question, index) ==
  {[id |-> index,
    difficulty |-> question.difficulty,
    options |-> o,
    correctAnswer |-> Str(question.correct_answer)] :
     o \in shuffleArray(MapDecode(question.incorrect_answers)
                        \o <<Str(decodeHTMLEntities(question.correct_answer))>>)}

RECURSIVE FormatAll(_, _)
FormatAll(results, k) ==
  IF k = 0 THEN {<<>>}
  ELSE {Append(pre, q) : pre \in FormatAll(results, k - 1),
                         q \in FormatQuestion(results[k], k)}

\* what a successful fetchQuestionsFromAPI can return
fetchQuestionsFromAPI(amount) ==
  UNION {shuffleArray(f) : f \in FormatAll(APIResults(amount), amount)}

\* the messages fetchQuestionsWithRetry can fail with
FetchErrors == {RateLimitMessage, NetworkMessage, NoResultsMessage}

\* --------------------------------------------------- local question pool
RECURSIVE FilterMap(_, _, _)
FilterMap(data, k, difficulty) ==
  IF k = 0 THEN <<>>
  ELSE LET rest == FilterMap(data, k - 1, difficulty)
           q == data[k]
       IN IF difficulty # NoDifficulty /\ q.difficulty # difficulty
          THEN rest
          ELSE Append(rest, [q EXCEPT !.id = IF q.id # 0 THEN q.id ELSE Len(rest) + 1])

filteredQuestions(difficulty) == FilterMap(questionsData, Len(questionsData), difficulty)

\* the repeat-with-reshuffle loop
RECURSIVE Draw(_, _, _, _)
Draw(questionData, questionsPool, filtered, amount) ==
  IF Len(questionData) >= amount THEN {questionData}
  ELSE IF Len(questionsPool) = 0
  THEN UNION {Draw(questionData, p, filtered, amount) : p \in shuffleQuestions(filtered)}
  ELSE Draw(Append(questionData,
                   [questionsPool[Len(questionsPool)] EXCEPT !.id = Len(questionData) + 1]),
            SubSeq(questionsPool, 1, Len(questionsPool) - 1), filtered, amount)

\* the local draw without the repeat loop: shuffle and slice only
LocalQuestionDataNoRepeat(amount, difficulty) ==
  {SubSeq(shuffled, 1, IF Len(shuffled) < amount THEN Len(shuffled) ELSE amount) :
     shuffled \in shuffleQuestions(filteredQuestions(difficulty))}

\* every questionData the local branch of loadQuestions can end with
LocalQuestionData(amount, difficulty) ==
  LET filtered == filteredQuestions(difficulty) IN
  UNION {IF Len(shuffled) >= amount THEN {SubSeq(shuffled, 1, amount)}
         ELSE IF Len(shuffled) > 0 THEN Draw(<<>>, shuffled, filtered, amount)
         ELSE {<<>>} : shuffled \in shuffleQuestions(filtered)}

\* every fallbackQuestions the catch branch can set
FallbackQuestions(amount) ==
  {SubSeq(s, 1, IF Len(s) < amount THEN Len(s) ELSE amount) :
     s \in shuffleQuestions(questionsData)}

\* ----------------------------------------------------------------- state
VARIABLES
  options,               \* useQuiz(options): useAPI, amount, difficulty, timeLimit
  questions, currentQuestionIndex, selectedAnswers, isLoading, error,
  quizCompleted, score, timeRemaining, timerActive, startTime, endTime,
  quizStarted,           \* Quiz page state
  mounted,               \* the Quiz page is on screen
  timerRef,              \* due time of the pending countdown timeout
  timerSid,              \* restarts when that timeout was scheduled
  timeUpTimeouts,        \* pending delayed callbacks of handleTimeUp
  slideOuts,             \* pending onNext callbacks of Question.handleNext
  navTimeouts,           \* due times of the pending navigate('/results')
  pendingLoads,          \* remote loadQuestions calls awaiting the fetch
  renderPending,         \* a stored-value update asks for another render
  addScoreCalls, updateStatsCalls,
  now,                   \* the clock
  restarts,              \* restartQuiz calls so far
  event,                 \* the last step taken
  justFinished,          \* finishQuiz ran in the last step
  firstResult, lastResult, completedAt,
  expiredIndex, inputSinceExpiry, firedStale,
  fault,                 \* the last step threw
  fetchError,            \* message the last failed fetch rejected with
  lastRequestTime,       \* utils/api: time of the last outbound request
  requestLog,            \* times of the outbound requests, in order
  calls,                 \* fetchQuestionsWithRetry calls
  highScores,            \* useHighScores: storedValue of the last render
  storedScores,          \* localStorage quizmaster_scores
  topPercentages,         \* how often each percentage belongs in the ledger
  stats,  \* useQuizStats: storedValue of the last render
  statsLog,  \* the results updateStats was called with, in order
  storedItems,  \* localStorage as text: what getItem returns for each key
  home,  \* the Home page: what it read when it mounted
  scoresRead,  \* what the last getHighScores() returned
  latestPending,  \* the loadQuestions call made last still awaits its fetch
  staleOutcome,  \* the last step ended a loadQuestions call older than the last one
  resultsPage  \* the Results page as rendered last

vars == <<options, questions, currentQuestionIndex, selectedAnswers, isLoading,
          error, quizCompleted, score, timeRemaining, timerActive, startTime,
          endTime, quizStarted, mounted, timerRef, timerSid, timeUpTimeouts,
          slideOuts, navTimeouts, pendingLoads, renderPending, addScoreCalls,
          updateStatsCalls, now, restarts, event, justFinished, firstResult,
          lastResult, completedAt, expiredIndex, inputSinceExpiry, firedStale,
          fault, fetchError, lastRequestTime, requestLog, calls,
          highScores, storedScores, topPercentages,
          stats,
          statsLog,
          storedItems,
          home,
          scoresRead,
          latestPending,
          staleOutcome,
          resultsPage>>

World ==
  [options |-> options, questions |-> questions,
   currentQuestionIndex |-> currentQuestionIndex,
   selectedAnswers |-> selectedAnswers, isLoading |-> isLoading,
   error |-> error, quizCompleted |-> quizCompleted, score |-> score,
   timeRemaining |-> timeRemaining, timerActive |-> timerActive,
   startTime |-> startTime, endTime |-> endTime, quizStarted |-> quizStarted,
   mounted |-> mounted, timerRef |-> timerRef, timerSid |-> timerSid,
   timeUpTimeouts |-> timeUpTimeouts, slideOuts |-> slideOuts,
   navTimeouts |-> navTimeouts, pendingLoads |-> pendingLoads,
   renderPending |-> renderPending, addScoreCalls |-> addScoreCalls,
   updateStatsCalls |-> updateStatsCalls, now |-> now, restarts |-> restarts,
   event |-> event, justFinished |-> justFinished,
   firstResult |-> firstResult, lastResult |-> lastResult,
   completedAt |-> completedAt, expiredIndex |-> expiredIndex,
   inputSinceExpiry |-> inputSinceExpiry, firedStale |-> firedStale,
   fault |-> fault, fetchError |-> fetchError,
   lastRequestTime |-> lastRequestTime, requestLog |-> requestLog,
   calls |-> calls, highScores |-> highScores, storedScores |-> storedScores,
   topPercentages |-> topPercentages,
   stats |-> stats,
   statsLog |-> statsLog,
   storedItems |-> storedItems,
   home |-> home,
   scoresRead |-> scoresRead,
   latestPending |-> latestPending,
   staleOutcome |-> staleOutcome,
   resultsPage |-> resultsPage]

Install(w) ==
  \E installed \in {w} :
    /\ options' = installed.options
    /\ questions' = installed.questions
    /\ currentQuestionIndex' = installed.currentQuestionIndex
    /\ selectedAnswers' = installed.selectedAnswers
    /\ isLoading' = installed.isLoading
    /\ error' = installed.error
    /\ quizCompleted' = installed.quizCompleted
    /\ score' = installed.score
    /\ timeRemaining' = installed.timeRemaining
    /\ timerActive' = installed.timerActive
    /\ startTime' = installed.startTime
    /\ endTime' = installed.endTime
    /\ quizStarted' = installed.quizStarted
    /\ mounted' = installed.mounted
    /\ timerRef' = installed.timerRef
    /\ timerSid' = installed.timerSid
    /\ timeUpTimeouts' = installed.timeUpTimeouts
    /\ slideOuts' = installed.slideOuts
    /\ navTimeouts' = installed.navTimeouts
    /\ pendingLoads' = installed.pendingLoads
    /\ renderPending' = installed.renderPending
    /\ addScoreCalls' = installed.addScoreCalls
    /\ updateStatsCalls' = installed.updateStatsCalls
    /\ now' = installed.now
    /\ restarts' = installed.restarts
    /\ event' = installed.event
    /\ justFinished' = installed.justFinished
    /\ firstResult' = installed.firstResult
    /\ lastResult' = installed.lastResult
    /\ completedAt' = installed.completedAt
    /\ expiredIndex' = installed.expiredIndex
    /\ inputSinceExpiry' = installed.inputSinceExpiry
    /\ firedStale' = installed.firedStale
    /\ fault' = installed.fault
    /\ fetchError' = installed.fetchError
    /\ lastRequestTime' = installed.lastRequestTime
    /\ requestLog' = installed.requestLog
    /\ calls' = installed.calls
    /\ highScores' = installed.highScores
    /\ storedScores' = installed.storedScores
    /\ topPercentages' = installed.topPercentages
    /\ stats' = installed.stats
    /\ statsLog' = installed.statsLog
    /\ storedItems' = installed.storedItems
    /\ home' = installed.home
    /\ scoresRead' = installed.scoresRead
    /\ latestPending' = installed.latestPending
    /\ staleOutcome' = installed.staleOutcome
    /\ resultsPage' = installed.resultsPage

NoAnswers == [i \in Ids |-> Undefined]
NoResult == [score |-> -1, total |-> -1, percentage |-> -1, results |-> <<>>, timeTaken |-> -1]

\* the useState fields of useQuiz
HookState(w) ==
  <<w.questions, w.currentQuestionIndex, w.selectedAnswers, w.isLoading, w.error,
    w.quizCompleted, w.score, w.timeRemaining, w.timerActive, w.startTime, w.endTime>>

\* what the handlers created in one render read from it
Closure(w) ==
  [questions |-> w.questions, currentQuestionIndex |-> w.currentQuestionIndex,
   selectedAnswers |-> w.selectedAnswers, startTime |-> w.startTime,
   quizCompleted |-> w.quizCompleted]

\* ------------------------------------------------------- computed values
\* Math.round((score / total) * 100)
Percentage(correct, total) ==
  IF total = 0 THEN NaN ELSE (200 * correct + total) \div (2 * total)

currentQuestionDefined(c) ==
  c.currentQuestionIndex >= 0 /\ c.currentQuestionIndex < Len(c.questions)
currentQuestion(c) == c.questions[c.currentQuestionIndex + 1]
hasSelectedAnswer(c) ==
  IF currentQuestionDefined(c)
  THEN c.selectedAnswers[currentQuestion(c).id] # Undefined ELSE FALSE
canGoNext(c) == hasSelectedAnswer(c) \/ c.quizCompleted
canGoPrevious(c) == c.currentQuestionIndex > 0 /\ ~c.quizCompleted
isLastQuestion(c) == c.currentQuestionIndex = Len(c.questions) - 1

Outcomes(qs, answers) ==
  [i \in 1..Len(qs) |->
     [id |-> qs[i].id, userAnswer |-> answers[qs[i].id],
      isCorrect |-> StrictEq(answers[qs[i].id], qs[i].correctAnswer)]]
CorrectCount(qs, answers) ==
  Cardinality({i \in 1..Len(qs) : StrictEq(answers[qs[i].id], qs[i].correctAnswer)})

quizResults(w) ==
  IF w.quizCompleted
  THEN [score |-> w.score, total |-> Len(w.questions),
        percentage |-> Percentage(w.score, Len(w.questions)),
        results |-> Outcomes(w.questions, w.selectedAnswers),
        timeTaken |-> IF w.startTime # NoDate /\ w.endTime # NoDate
                      THEN w.endTime - w.startTime ELSE 0]
  ELSE NoResult

\* message.includes(text), for the messages and texts of the program
Includes(message, text) ==
  <<message, text>> \in {<<RateLimitMessage, "Rate limit">>,
                         <<"Failed to fetch", "Failed to fetch">>,
                         <<"NetworkError when attempting to fetch resource.",
                           "NetworkError">>,
                         <<NetworkMessage, "Network">>,
                         <<NetworkMessage, "connection">>,
                         <<OfflineNotice, "connection">>}

\* the error screen's classification of the session's error
isRateLimitError(message) == Includes(message, "Rate limit") \/ Includes(message, "429")
isNetworkError(message) == Includes(message, "Network") \/ Includes(message, "connection")

\* which branch of the Quiz page's render is on screen
Screen(w) ==
  IF w.isLoading THEN "loading"
  ELSE IF w.error # NoError THEN "error"
  ELSE IF ~w.quizStarted /\ Len(w.questions) > 0 THEN "start"
  ELSE IF w.quizCompleted THEN "completed"
  ELSE "main"

\* Layout shows its Timers when showTimer = timerActive
TimersMounted(w) == Screen(w) = "main" /\ w.timerActive

\* ------------------------------------------------------ useQuiz handlers
finishQuiz(c, w) ==
  LET correctAnswers == CorrectCount(c.questions, c.selectedAnswers)
      result == [score |-> correctAnswers, total |-> Len(c.questions),
                 percentage |-> Percentage(correctAnswers, Len(c.questions)),
                 results |-> Outcomes(c.questions, c.selectedAnswers),
                 timeTaken |-> IF c.startTime # NoDate THEN w.now - c.startTime ELSE 0]
  IN [w EXCEPT !.timerActive = FALSE, !.endTime = w.now,
               !.score = correctAnswers, !.quizCompleted = TRUE,
               !.justFinished = TRUE, !.lastResult = result,
               !.firstResult = IF w.quizCompleted THEN @ ELSE result,
               !.completedAt = IF w.quizCompleted THEN @ ELSE w.now]

nextQuestion(c, w) ==
  IF c.currentQuestionIndex < Len(c.questions) - 1
  THEN [w EXCEPT !.currentQuestionIndex = @ + 1,
                 !.timeRemaining = w.options.timeLimit]
  ELSE finishQuiz(c, w)

previousQuestion(c, w) ==
  IF c.currentQuestionIndex > 0
  THEN [w EXCEPT !.currentQuestionIndex = @ - 1,
                 !.timeRemaining = w.options.timeLimit]
  ELSE w

skipQuestion(c, w) == nextQuestion(c, w)

\* questions[currentQuestionIndex].id throws when there is no such question
selectAnswer(c, answerIndex, w) ==
  IF c.quizCompleted THEN w
  ELSE IF ~currentQuestionDefined(c) THEN [w EXCEPT !.fault = TRUE]
  ELSE [w EXCEPT !.selectedAnswers[currentQuestion(c).id] = Num(answerIndex)]

startQuiz(w) == [w EXCEPT !.startTime = w.now, !.timerActive = TRUE]

\* the callback handleTimeUp hands to setTimeout
TimeUpTimeout(c, w) ==
  IF c.currentQuestionIndex < Len(c.questions) - 1
  THEN [w EXCEPT !.currentQuestionIndex = @ + 1,
                 !.timeRemaining = w.options.timeLimit,
                 !.timerActive = TRUE]
  ELSE finishQuiz(c, w)

handleTimeUp(c, w) ==
  [w EXCEPT !.timerActive = FALSE,
            !.timeUpTimeouts = @ \cup {[closure |-> c, due |-> w.now + 1,
                                        sid |-> w.restarts]},
            !.expiredIndex = c.currentQuestionIndex,
            !.inputSinceExpiry = FALSE]

\* the state set by a load that obtained questionData
LoadSucceeded(w, questionData) ==
  [w EXCEPT !.questions = questionData, !.currentQuestionIndex = 0,
            !.selectedAnswers = NoAnswers, !.quizCompleted = FALSE,
            !.score = 0, !.timeRemaining = w.options.timeLimit,
            !.timerActive = FALSE, !.startTime = NoDate, !.endTime = NoDate,
            !.isLoading = FALSE]

\* loadQuestions up to its first await; questionData is the local draw
loadQuestions(w, questionData) ==
  LET l == [w EXCEPT !.isLoading = TRUE, !.error = NoError,
                     !.inputSinceExpiry = TRUE] IN
  IF l.options.useAPI
  THEN [l EXCEPT !.pendingLoads = @ + 1, !.latestPending = TRUE]
  ELSE IF Len(questionData) = 0
  THEN [l EXCEPT !.error = NoQuestionsFound, !.isLoading = FALSE]
  ELSE LoadSucceeded(l, questionData)

\* loadQuestions' catch branch after the fetch threw message
LoadFailed(w, message, fallbackQuestions) ==
  [w EXCEPT !.questions = fallbackQuestions, !.error = OfflineNotice,
            !.isLoading = FALSE, !.fetchError = message]

\* --------------------------------------------------- Quiz page handlers
QuizHandleNext(c, w) == IF isLastQuestion(c) THEN finishQuiz(c, w) ELSE nextQuestion(c, w)
QuizHandleTimeUp(c, w) == IF isLastQuestion(c) THEN finishQuiz(c, w) ELSE nextQuestion(c, w)

RECURSIVE TimerEffects(_, _, _)
\* the effect of each mounted Timer: onTimeUp() when timeRemaining is 0
TimerEffects(c, w, n) ==
  IF n = 0 THEN w ELSE TimerEffects(c, QuizHandleTimeUp(c, w), n - 1)

\* the completion effect of the Quiz page
CompletionEffect(w) ==
  [w EXCEPT !.addScoreCalls = @ + 1, !.updateStatsCalls = @ + 1,
            !.navTimeouts = @ \cup {w.now + 2}, !.renderPending = TRUE]

\* variant: no timeout is set for the last second
TimerEffectStopsEarly(c, rendered, w) ==
  LET cleared == [w EXCEPT !.timerRef = NoTimer] IN
  IF rendered.timerActive /\ rendered.timeRemaining > 1
  THEN [cleared EXCEPT !.timerRef = w.now + 1, !.timerSid = w.restarts]
  ELSE IF rendered.timeRemaining = 0 /\ rendered.timerActive
  THEN handleTimeUp(c, cleared)
  ELSE cleared

\* the countdown effect of useQuiz, cleanup first
TimerEffect(c, rendered, w) ==
  LET cleared == [w EXCEPT !.timerRef = NoTimer] IN
  IF rendered.timerActive /\ rendered.timeRemaining > 0
  THEN [cleared EXCEPT !.timerRef = w.now + 1, !.timerSid = w.restarts]
  ELSE IF rendered.timeRemaining = 0 /\ rendered.timerActive
  THEN handleTimeUp(c, cleared)
  ELSE cleared

RECURSIVE Commit(_, _)
\* render w after the render of p, run the effects, and render again while
\* the effects changed the hook's state
Commit(p, w) ==
  IF ~w.mounted THEN w
  ELSE
    LET c == Closure(w)
        r == [w EXCEPT !.renderPending = FALSE]
        a == IF TimersMounted(w) /\ w.timeRemaining = 0
             THEN TimerEffects(c, r, TimerInstances) ELSE r
        b == IF p.timeRemaining # w.timeRemaining \/ p.timerActive # w.timerActive
             THEN TimerEffect(c, w, a) ELSE a
        d == IF w.quizCompleted THEN CompletionEffect(b) ELSE b
    IN IF HookState(d) = HookState(w) THEN d ELSE Commit(w, d)

\* leaving the page: effect cleanups run, later callbacks find no component
Unmount(w) ==
  [w EXCEPT !.mounted = FALSE, !.timerRef = NoTimer, !.timeUpTimeouts = {},
            !.slideOuts = <<>>, !.navTimeouts = {}, !.pendingLoads = 0,
            !.latestPending = FALSE, !.renderPending = FALSE]

Begin(evt, isInput) ==
  [World EXCEPT !.event = evt, !.justFinished = FALSE, !.firedStale = FALSE,
                !.fault = FALSE, !.staleOutcome = FALSE,
                !.inputSinceExpiry = @ \/ isInput]

\* ------------------------------------------------------------------ Init
\* a fetchQuestionsWithRetry call that has not been made yet
IdleCall(maxRetries) ==
  [pc |-> "idle", maxRetries |-> maxRetries, attempt |-> 0, due |-> 0,
   requested |-> 0, outcomes |-> <<>>, returned |-> 0, thrown |-> NoError]

\* utils/api as loaded: no request made within the last interval
InitAPI(callIds, retries) ==
  /\ lastRequestTime = 0 - MIN_REQUEST_INTERVAL
  /\ requestLog = <<>>
  /\ calls \in [callIds -> {IdleCall(k) : k \in retries}]

InitSession(useAPIs, amounts, difficulties) ==
  /\ options \in [useAPI : useAPIs, amount : amounts,
                  difficulty : difficulties, timeLimit : 1..MaxTimeLimit]
  /\ questions = <<>>
  /\ currentQuestionIndex = 0
  /\ selectedAnswers = NoAnswers
  /\ isLoading = FALSE
  /\ error = NoError
  /\ quizCompleted = FALSE
  /\ score = 0
  /\ timeRemaining = options.timeLimit
  /\ timerActive = FALSE
  /\ startTime = NoDate
  /\ endTime = NoDate
  /\ quizStarted = FALSE
  /\ mounted = FALSE
  /\ timerRef = NoTimer
  /\ timerSid = 0
  /\ timeUpTimeouts = {}
  /\ slideOuts = <<>>
  /\ navTimeouts = {}
  /\ pendingLoads = 0
  /\ renderPending = FALSE
  /\ addScoreCalls = 0
  /\ updateStatsCalls = 0
  /\ now = 0
  /\ restarts = 0
  /\ event = "Init"
  /\ justFinished = FALSE
  /\ firstResult = NoResult
  /\ lastResult = NoResult
  /\ completedAt = NoDate
  /\ expiredIndex = -1
  /\ inputSinceExpiry = FALSE
  /\ firedStale = FALSE
  /\ fault = FALSE
  /\ fetchError = NoError
  /\ latestPending = FALSE
  /\ staleOutcome = FALSE

\* the percentages of the recorded results
Percentages == {20, 60, 95}

\* useQuizStats: the initial stats
initialStats ==
  [totalQuizzes |-> 0, totalQuestions |-> 0, totalCorrect |-> 0,
   averageScore |-> 0, bestStreak |-> 0, currentStreak |-> 0,
   timeSpent |-> 0, lastPlayed |-> NoDate]

\* --------------------------------------------- localStorage as text
NoItem == "null"       \* getItem of a key that is not there
StorageKeys == {"quizmaster_scores", "quizmaster_stats", "quizmaster_useAPI"}
Items == {NoItem, "", "true", "false", "[]", "{bad"}

\* JSON.parse(text) throws a SyntaxError
ParseThrows(text) == text \notin {"true", "false", "[]"}
\* JSON.stringify(JSON.parse(text)), the value written as text
JSONParse(text) == text

\* what a component gets with its initial value when the key is not there
InitialValue ==
  [quizmaster_scores |-> "[]", quizmaster_stats |-> "{totalQuizzes:0}",
   quizmaster_useAPI |-> "true"]

\* useLocalStorage: try { item ? JSON.parse(item) : initialValue }
\* catch { initialValue }
ReadStored(item, initialValue) ==
  IF item = NoItem \/ item = "" THEN initialValue
  ELSE IF ParseThrows(item) THEN initialValue
  ELSE JSONParse(item)

NotMounted ==
  [mounted |-> FALSE, found |-> [k \in StorageKeys |-> NoItem],
   highScores |-> "[]", stats |-> "{totalQuizzes:0}", useAPI |-> "true"]

\* no Results page on screen
NoResultsPage ==
  [shown |-> FALSE, percentage |-> -1, bestBefore |-> -1, isNewHighScore |-> FALSE]

\* the storage as the pages find it
InitStorage(items) ==
  /\ resultsPage = NoResultsPage
  /\ storedItems \in [StorageKeys -> items]
  /\ home = NotMounted
  /\ scoresRead = "[]"

\* localStorage holds no scores and no stats
InitScores ==
  /\ InitStorage({NoItem})
  /\ highScores = <<>>
  /\ storedScores = <<>>
  /\ topPercentages = [p \in Percentages |-> 0]
  /\ stats = initialStats
  /\ statsLog = <<>>

\* a Quiz page about to mount; no fetch call of its own is followed
InitWith(useAPIs, amounts, difficulties) ==
  /\ InitAPI({}, {})
  /\ InitScores
  /\ InitSession(useAPIs, amounts, difficulties)

\* --------------------------------------------------------------- actions
\* the Quiz page mounts: first render, then the load effect
MountQuiz ==
  /\ ~mounted /\ event = "Init"
  /\ \E questionData \in LocalQuestionData(options.amount, options.difficulty) :
       LET w == [Begin("MountQuiz", FALSE) EXCEPT !.mounted = TRUE]
       IN Install(Commit(w, loadQuestions(w, questionData)))

restartQuiz ==
  /\ mounted /\ restarts < MaxRestarts
  /\ \E questionData \in LocalQuestionData(options.amount, options.difficulty) :
       LET w == [Begin("restartQuiz", TRUE) EXCEPT !.restarts = @ + 1]
       IN Install(Commit(World, loadQuestions(w, questionData)))

\* the fetch of one pending loadQuestions call ends: that of the call made
\* last (latest) or that of an earlier call; nothing orders the two
Settled(evt, latest) ==
  [Begin(evt, TRUE) EXCEPT !.pendingLoads = @ - 1,
                           !.latestPending = IF latest THEN FALSE ELSE @,
                           !.staleOutcome = ~latest]

CanSettle(latest) ==
  IF latest THEN latestPending
  ELSE pendingLoads > (IF latestPending THEN 1 ELSE 0)

\* the awaited fetchQuestionsWithRetry resolves
FetchSucceeds ==
  /\ mounted /\ pendingLoads > 0
  /\ \E questionData \in fetchQuestionsFromAPI(options.amount), latest \in BOOLEAN :
       /\ CanSettle(latest)
       /\ Install(Commit(World, LoadSucceeded(Settled("FetchSucceeds", latest),
                                              questionData)))

\* the awaited fetchQuestionsWithRetry rejects
FetchFails ==
  /\ mounted /\ pendingLoads > 0
  /\ \E message \in FetchErrors, fallbackQuestions \in FallbackQuestions(options.amount),
        latest \in BOOLEAN :
       /\ CanSettle(latest)
       /\ Install(Commit(World, LoadFailed(Settled("FetchFails", latest),
                                           message, fallbackQuestions)))

handleStartQuiz ==
  /\ mounted /\ Screen(World) = "start"
  /\ LET w == [Begin("handleStartQuiz", TRUE) EXCEPT !.quizStarted = TRUE]
     IN Install(Commit(World, startQuiz(w)))

handleAnswerSelect ==
  /\ mounted /\ Screen(World) = "main" /\ currentQuestionDefined(World)
  /\ \E answerIndex \in 0..(Len(currentQuestion(World).options) - 1) :
       Install(Commit(World, selectAnswer(Closure(World), answerIndex,
                                          Begin("handleAnswerSelect", TRUE))))

\* Question.handleNext: the tween starts, onNext waits for it
QuestionHandleNext ==
  /\ mounted /\ Screen(World) = "main" /\ currentQuestionDefined(World)
  /\ canGoNext(World)
  /\ Len(slideOuts) < MaxSlideOuts
  /\ Install([Begin("QuestionHandleNext", TRUE) EXCEPT
                !.slideOuts = Append(@, Closure(World))])

\* the tween ends: onNext() of the render that was clicked
SlideOutDone ==
  /\ mounted /\ slideOuts # <<>>
  /\ LET w == [Begin("SlideOutDone", FALSE) EXCEPT !.slideOuts = Tail(@)]
     IN Install(Commit(World, QuizHandleNext(Head(slideOuts), w)))

handlePrevious ==
  /\ mounted /\ Screen(World) = "main" /\ currentQuestionDefined(World)
  /\ canGoPrevious(World)
  /\ Install(Commit(World, previousQuestion(Closure(World), Begin("handlePrevious", TRUE))))

handleSkip ==
  /\ mounted /\ Screen(World) = "main" /\ currentQuestionDefined(World)
  /\ Install(Commit(World, skipQuestion(Closure(World), Begin("handleSkip", TRUE))))

\* the countdown timeout fires: setTimeRemaining(prev => prev - 1)
TimerTick ==
  /\ mounted /\ timerRef # NoTimer /\ timerRef <= now
  /\ LET w == [Begin("TimerTick", FALSE) EXCEPT !.timerRef = NoTimer,
                                                !.timeRemaining = @ - 1,
                                                !.firedStale = timerSid < restarts]
     IN Install(Commit(World, w))

\* the delayed callback of handleTimeUp fires
TimeUpCallback ==
  /\ mounted
  /\ \E t \in timeUpTimeouts :
       /\ t.due <= now
       /\ LET w == [Begin("TimeUpCallback", FALSE) EXCEPT
                      !.timeUpTimeouts = @ \ {t},
                      !.firedStale = t.sid < restarts]
          IN Install(Commit(World, TimeUpTimeout(t.closure, w)))

\* the stored-value update of addScore / updateStats re-renders the page
Rerender ==
  /\ mounted /\ renderPending /\ addScoreCalls < MaxSaves
  /\ Install(Commit(World, Begin("Rerender", FALSE)))

\* navigate('/results') fires
NavigateToResults ==
  /\ mounted
  /\ \E due \in navTimeouts : due <= now
  /\ Install(Unmount(Begin("NavigateToResults", FALSE)))

\* confirmExit / Back to Home
confirmExit ==
  /\ mounted /\ Screen(World) \in {"error", "start", "main"}
  /\ Install(Unmount(Begin("confirmExit", TRUE)))

\* a second passes; due timeouts fire first
TickTo(limit) ==
  /\ mounted /\ now < limit
  /\ timerRef = NoTimer \/ timerRef > now
  /\ \A t \in timeUpTimeouts : t.due > now
  /\ \A due \in navTimeouts : due > now
  /\ now' = now + 1
  /\ event' = "Tick"
  /\ justFinished' = FALSE
  /\ firedStale' = FALSE
  /\ fault' = FALSE
  /\ UNCHANGED <<options, questions, currentQuestionIndex, selectedAnswers,
                 isLoading, error, quizCompleted, score, timeRemaining,
                 timerActive, startTime, endTime, quizStarted, mounted, timerRef,
                 timerSid, timeUpTimeouts, slideOuts, navTimeouts, pendingLoads,
                 renderPending, addScoreCalls, updateStatsCalls, restarts,
                 firstResult, lastResult, completedAt, expiredIndex,
                 inputSinceExpiry, fetchError, lastRequestTime, requestLog,
                 calls, highScores, storedScores, topPercentages,
                 stats,
                 statsLog,
                 storedItems,
                 home,
                 scoresRead,
                 latestPending,
                 staleOutcome,
                 resultsPage>>

Tick == TickTo(MaxNow)

\* a session on the local dataset
Init == InitWith({FALSE}, 1..MaxAmount, {NoDifficulty, "easy", "hard"})

Next ==
  \/ MountQuiz
  \/ handleStartQuiz
  \/ handleAnswerSelect
  \/ QuestionHandleNext
  \/ SlideOutDone
  \/ handlePrevious
  \/ handleSkip
  \/ TimerTick
  \/ TimeUpCallback
  \/ Rerender
  \/ NavigateToResults
  \/ confirmExit
  \/ Tick

Spec == Init /\ [][Next]_vars

\* ENABLED TimerTick and ENABLED TimeUpCallback
TimerTickDue == mounted /\ timerRef # NoTimer /\ timerRef <= now
TimeUpCallbackDue == mounted /\ \E t \in timeUpTimeouts : t.due <= now

\* the same sessions when the clock goes on and every setTimeout callback
\* that is due runs, the countdown tick and handleTimeUp's delayed callback:
\* WF_vars(Tick), WF_vars(TimerTick) and WF_vars(TimeUpCallback), the last
\* two written out with the guards above, their steps told by event
SpecTimers ==
  /\ Spec
  /\ WF_vars(Tick)
  /\ []<>(~TimerTickDue) \/ []<><<event' = "TimerTick">>_vars
  /\ []<>(~TimeUpCallbackDue) \/ []<><<event' = "TimeUpCallback">>_vars

\* a session on the remote provider, with the offline fallback
InitRemote == InitWith({TRUE}, 1..MaxAmount, {NoDifficulty, "hard"})

NextRemote ==
  \/ MountQuiz
  \/ FetchSucceeds
  \/ FetchFails
  \/ handleStartQuiz
  \/ handleAnswerSelect
  \/ QuestionHandleNext
  \/ SlideOutDone
  \/ handlePrevious
  \/ handleSkip
  \/ TimerTick
  \/ TimeUpCallback
  \/ Rerender
  \/ NavigateToResults
  \/ confirmExit
  \/ Tick

SpecRemote == InitRemote /\ [][NextRemote]_vars

\* one-question sessions of either source, restarted by the caller
InitRestart == InitWith(BOOLEAN, {1}, {NoDifficulty})

NextRestart ==
  \/ MountQuiz
  \/ restartQuiz
  \/ FetchSucceeds
  \/ FetchFails
  \/ handleStartQuiz
  \/ handleAnswerSelect
  \/ QuestionHandleNext
  \/ SlideOutDone
  \/ handleSkip
  \/ TimerTick
  \/ TimeUpCallback
  \/ Rerender
  \/ NavigateToResults
  \/ confirmExit
  \/ Tick

SpecRestart == InitRestart /\ [][NextRestart]_vars

\* ------------------------------------------------ utils/api: fetching
\* what one request can end with: the HTTP status, the provider's
\* response_code, or a rejected fetch
Responses ==
  {"ok", "429", "500", "code1", "code2", "code3", "code5", "rejected",
   "rejectedFirefox", "rejectedSafari"}

\* the message of the TypeError a fetch that got no response rejects with:
\* the text is the browser's own
RejectionMessage(response) ==
  CASE response = "rejectedFirefox" -> "NetworkError when attempting to fetch resource."
    [] response = "rejectedSafari" -> "Load failed"
    [] OTHER -> "Failed to fetch"

\* the error fetchQuestionsFromAPI's try block throws for a response
Thrown(response) ==
  CASE response = "429" -> "RATE_LIMIT_EXCEEDED"
    [] response = "500" -> HttpErrorMessage
    [] response = "code1" -> "NO_RESULTS"
    [] response = "code2" -> "INVALID_PARAMETER"
    [] response = "code3" -> TokenNotFound
    [] response = "code5" -> "RATE_LIMIT"
    [] OTHER -> RejectionMessage(response)

\* the message fetchQuestionsFromAPI's catch rethrows
Rethrown(message) ==
  IF message = "RATE_LIMIT_EXCEEDED" \/ message = "RATE_LIMIT" THEN RateLimitMessage
  ELSE IF message = "NO_RESULTS" THEN NoResultsMessage
  ELSE IF message = "INVALID_PARAMETER" THEN InvalidParameterMessage
  ELSE IF Includes(message, "Failed to fetch") \/ Includes(message, "NetworkError")
  THEN NetworkMessage
  ELSE message

\* variants: a retry after every error, and a loop of one more pass
RetryAnyError(message) == TRUE
OneMorePass(attempt, maxRetries) == attempt <= maxRetries + 1

\* fetchQuestionsWithRetry's test for a rate-limited attempt
IsRateLimited(message) == Includes(message, "Rate limit") \/ Includes(message, "429")

\* the for loop's condition
WithinRetries(attempt, maxRetries) == attempt <= maxRetries

\* fetch(url) leaves
IssueRequest(w, i) ==
  [w EXCEPT !.lastRequestTime = w.now, !.requestLog = Append(@, w.now),
            !.calls[i].pc = "inFlight", !.calls[i].requested = @ + 1]

rateLimitedFetch(w, i) ==
  LET timeSinceLastRequest == w.now - w.lastRequestTime IN
  IF timeSinceLastRequest < MIN_REQUEST_INTERVAL
  THEN [w EXCEPT !.calls[i].pc = "rateWait",
                 !.calls[i].due = w.now + (MIN_REQUEST_INTERVAL - timeSinceLastRequest)]
  ELSE IssueRequest(w, i)

\* one pass of the loop up to its first await
Attempt(w, i, attempt) ==
  LET a == [w EXCEPT !.calls[i].attempt = attempt] IN
  IF ~WithinRetries(attempt, w.calls[i].maxRetries)
  THEN [a EXCEPT !.calls[i].pc = "thrown",
                 !.calls[i].thrown = Rethrown(Thrown(w.calls[i].outcomes[attempt - 1]))]
  ELSE IF attempt > 1
  THEN [a EXCEPT !.calls[i].pc = "retryDelay",
                 !.calls[i].due = w.now + attempt * RetryWaitStep]
  ELSE rateLimitedFetch(a, i)

\* the attempt's request ended with response
Responded(w, i, response) ==
  LET c == w.calls[i]
      r == [w EXCEPT !.calls[i].outcomes = Append(@, response)]
      message == Rethrown(Thrown(response))
  IN IF response = "ok"
     THEN [r EXCEPT !.calls[i].pc = "returned", !.calls[i].returned = c.attempt]
     ELSE IF IsRateLimited(message)
     THEN IF c.attempt < c.maxRetries
          THEN [r EXCEPT !.calls[i].pc = "backoff",
                         !.calls[i].due = w.now + RateLimitWait]
          ELSE Attempt(r, i, c.attempt + 1)
     ELSE [r EXCEPT !.calls[i].pc = "thrown", !.calls[i].thrown = message]

fetchQuestionsWithRetry ==
  \E i \in DOMAIN calls :
    /\ calls[i].pc = "idle"
    /\ Install(Attempt(Begin("fetchQuestionsWithRetry", FALSE), i, 1))

\* the delay inside rateLimitedFetch ends
RateWaitDone ==
  \E i \in DOMAIN calls :
    /\ calls[i].pc = "rateWait" /\ calls[i].due <= now
    /\ Install(IssueRequest(Begin("RateWaitDone", FALSE), i))

Respond ==
  \E i \in DOMAIN calls, response \in Responses :
    /\ calls[i].pc = "inFlight"
    /\ Install(Responded(Begin("Respond", FALSE), i, response))

\* the wait after a rate-limited attempt ends: next pass of the loop
BackoffDone ==
  \E i \in DOMAIN calls :
    /\ calls[i].pc = "backoff" /\ calls[i].due <= now
    /\ Install(Attempt(Begin("BackoffDone", FALSE), i, calls[i].attempt + 1))

\* the wait before a retry attempt ends
RetryDelayDone ==
  \E i \in DOMAIN calls :
    /\ calls[i].pc = "retryDelay" /\ calls[i].due <= now
    /\ Install(rateLimitedFetch(Begin("RetryDelayDone", FALSE), i))

\* a second passes; due delays end first
ElapseTo(limit) ==
  /\ now < limit
  /\ \A i \in DOMAIN calls :
       calls[i].pc \in {"rateWait", "backoff", "retryDelay"} => calls[i].due > now
  /\ Install([Begin("Elapse", FALSE) EXCEPT !.now = @ + 1])

ElapseRetry == ElapseTo(MaxRetryNow)
ElapseFetch == ElapseTo(MaxFetchNow)

\* one fetchQuestionsWithRetry call, maxRetries from 1 to MaxRetries
InitRetry ==
  /\ InitScores
  /\ InitAPI({1}, 1..MaxRetries)
  /\ InitSession({TRUE}, {1}, {NoDifficulty})

NextRetry ==
  \/ fetchQuestionsWithRetry
  \/ Respond
  \/ BackoffDone
  \/ RetryDelayDone
  \/ ElapseRetry

SpecRetry == InitRetry /\ [][NextRetry]_vars

\* overlapping calls of one attempt each
InitFetch ==
  /\ InitScores
  /\ InitAPI(1..MaxFetchCalls, {1})
  /\ InitSession({TRUE}, {1}, {NoDifficulty})

NextFetch ==
  \/ fetchQuestionsWithRetry
  \/ RateWaitDone
  \/ Respond
  \/ ElapseFetch

SpecFetch == InitFetch /\ [][NextFetch]_vars

\* ----------------------------------------------------- useHighScores
\* where a.sort((a, b) => b.percentage - a.percentage), a stable sort,
\* puts score among the already sorted scores
RECURSIVE InsertSortedNewestFirst(_, _)
InsertSortedNewestFirst(sorted, newScore) ==
  IF sorted = <<>> THEN <<newScore>>
  ELSE IF Head(sorted).percentage > newScore.percentage
       THEN <<Head(sorted)>> \o InsertSortedNewestFirst(Tail(sorted), newScore)
       ELSE <<newScore>> \o sorted

RECURSIVE InsertSorted(_, _)
InsertSorted(sorted, newScore) ==
  IF sorted = <<>> THEN <<newScore>>
  ELSE IF Head(sorted).percentage >= newScore.percentage
       THEN <<Head(sorted)>> \o InsertSorted(Tail(sorted), newScore)
       ELSE <<newScore>> \o sorted

RECURSIVE SortScores(_)
SortScores(scores) ==
  IF scores = <<>> THEN <<>>
  ELSE InsertSorted(SortScores(SubSeq(scores, 1, Len(scores) - 1)),
                    scores[Len(scores)])

\* [...prevScores, newScore].sort(...).slice(0, 10)
updatedScores(prevScores, newScore) ==
  LET sorted == SortScores(Append(prevScores, newScore))
  IN SubSeq(sorted, 1, IF Len(sorted) < MaxHighScores THEN Len(sorted)
                       ELSE MaxHighScores)

\* getBestScore of the rendered ledger
NoScore == [percentage |-> -1, id |-> -1]
getBestScore == IF Len(highScores) > 0 THEN highScores[1] ELSE NoScore

\* the percentages that belong in the ledger once one of percentage p came
RECURSIVE DropLowest(_)
DropLowest(counts) ==
  LET lowest == CHOOSE p \in Percentages :
                  counts[p] > 0 /\ \A q \in Percentages : counts[q] > 0 => p <= q
  IN [counts EXCEPT ![lowest] = @ - 1]

RECURSIVE CountAll(_, _)
CountAll(counts, ps) ==
  IF ps = {} THEN 0
  ELSE LET p == CHOOSE x \in ps : TRUE IN counts[p] + CountAll(counts, ps \ {p})

TopWith(counts, p) ==
  LET more == [counts EXCEPT ![p] = @ + 1]
  IN IF CountAll(more, Percentages) > MaxHighScores THEN DropLowest(more) ELSE more

RECURSIVE TopWithAll(_, _)
TopWithAll(counts, batch) ==
  IF batch = <<>> THEN counts
  ELSE TopWithAll(TopWith(counts, Head(batch)), Tail(batch))

\* one handler calls addScore for each percentage of batch; every call
\* reaches setValue of the same render, whose value(storedValue) reads that
\* render's storedValue; the page renders again when the handler is done
RECURSIVE AddScores(_, _, _)
AddScores(w, storedValue, batch) ==
  IF batch = <<>> THEN w
  ELSE LET valueToStore == updatedScores(storedValue,
                             [percentage |-> Head(batch), id |-> w.now])
       IN AddScores([w EXCEPT !.highScores = valueToStore,
                              !.storedScores = valueToStore],
                    storedValue, Tail(batch))

Batches == UNION {[1..n -> Percentages] : n \in 1..MaxBatch}

addScore ==
  \E batch \in Batches :
    Install([AddScores(Begin("addScore", FALSE), highScores, batch) EXCEPT
               !.topPercentages = TopWithAll(@, batch)])

\* removeValue: removeItem and setStoredValue(initialValue)
clearScores ==
  /\ Len(highScores) > 0
  /\ Install([Begin("clearScores", FALSE) EXCEPT
                !.highScores = <<>>, !.storedScores = <<>>,
                !.topPercentages = [p \in Percentages |-> 0],
                !.resultsPage = IF @.shown THEN [@ EXCEPT !.isNewHighScore = TRUE]
                                ELSE @])

InitLedger ==
  /\ InitScores
  /\ InitAPI({}, {})
  /\ InitSession({FALSE}, {1}, {NoDifficulty})

\* time passes between two handlers; Date.now() gives the id of an entry
ElapseScores == ElapseTo(MaxLedgerNow)

NextLedger ==
  \/ addScore
  \/ clearScores
  \/ ElapseScores

SpecLedger == InitLedger /\ [][NextLedger]_vars

\* ------------------------------------------- from Quiz to the Results page
\* the completion effect of the Quiz page calls addScore once in each of
\* its runs, every run in a render of its own
RECURSIVE SaveScore(_, _, _)
SaveScore(w, percentage, runs) ==
  IF runs = 0 THEN w
  ELSE SaveScore([AddScores(w, w.highScores, <<percentage>>) EXCEPT
                    !.topPercentages = TopWith(@, percentage)],
                 percentage, runs - 1)

\* Results: highScores.length === 0 || results.percentage > highScores[0].percentage
isNewHighScore(percentage, scores) ==
  Len(scores) = 0 \/ percentage > scores[1].percentage

\* a session of some percentage completes on the Quiz page: the effect saves
\* the score, navigate('/results') follows 2 s later, and the Results page
\* mounts useHighScores, which reads quizmaster_scores
QuizToResults ==
  \E percentage \in Percentages, runs \in 1..MaxSaves :
    LET saved == SaveScore(Begin("QuizToResults", FALSE), percentage, runs)
    IN Install([saved EXCEPT
                  !.highScores = saved.storedScores,
                  !.resultsPage =
                    [shown |-> TRUE, percentage |-> percentage,
                     bestBefore |-> getBestScore.percentage,
                     isNewHighScore |-> isNewHighScore(percentage, saved.storedScores)]])

InitResults ==
  /\ InitScores
  /\ InitAPI({}, {})
  /\ InitSession({FALSE}, {1}, {NoDifficulty})

NextResults ==
  \/ QuizToResults
  \/ clearScores

SpecResults == InitResults /\ [][NextResults]_vars

\* -------------------------------------------------------- useQuizStats
\* the updater updateStats hands to setStats
StatsUpdater(prevStats, quizResult, date) ==
  LET newTotalQuizzes == prevStats.totalQuizzes + 1
      newTotalQuestions == prevStats.totalQuestions + quizResult.total
      newTotalCorrect == prevStats.totalCorrect + quizResult.score
      newAverageScore == Percentage(newTotalCorrect, newTotalQuestions)
      newCurrentStreak == IF quizResult.percentage >= 70
                          THEN prevStats.currentStreak + 1 ELSE 0
      newBestStreak == IF prevStats.bestStreak >= newCurrentStreak
                       THEN prevStats.bestStreak ELSE newCurrentStreak
      newTimeSpent == prevStats.timeSpent + quizResult.timeTaken
  IN [totalQuizzes |-> newTotalQuizzes, totalQuestions |-> newTotalQuestions,
      totalCorrect |-> newTotalCorrect, averageScore |-> newAverageScore,
      bestStreak |-> newBestStreak, currentStreak |-> newCurrentStreak,
      timeSpent |-> newTimeSpent, lastPlayed |-> date]

\* one handler calls updateStats for each result of batch; setValue gives
\* every updater the storedValue of the render the handler belongs to and
\* stores what it returns, in the state and in localStorage quizmaster_stats
RECURSIVE UpdateStats(_, _, _)
UpdateStats(w, storedValue, batch) ==
  IF batch = <<>> THEN w
  ELSE UpdateStats([w EXCEPT !.stats = StatsUpdater(storedValue, Head(batch), w.now),
                             !.statsLog = Append(@, Head(batch))],
                   storedValue, Tail(batch))

\* the results of three quizzes
QuizResultsPlayed ==
  {[score |-> 4, total |-> 5, percentage |-> 80, timeTaken |-> 1],
   [score |-> 1, total |-> 2, percentage |-> 50, timeTaken |-> 2],
   [score |-> 9, total |-> 10, percentage |-> 90, timeTaken |-> 3]}

StatBatches == UNION {[1..n -> QuizResultsPlayed] : n \in 1..MaxBatch}

updateStats ==
  \E batch \in StatBatches :
    /\ Len(statsLog) + Len(batch) <= MaxStatsCalls
    /\ Install(UpdateStats(Begin("updateStats", FALSE), stats, batch))

\* resetStats: setStats(initial stats)
resetStats ==
  /\ Len(statsLog) > 0
  /\ Install([Begin("resetStats", FALSE) EXCEPT
                !.stats = initialStats, !.statsLog = <<>>])

InitStats ==
  /\ InitScores
  /\ InitAPI({}, {})
  /\ InitSession({FALSE}, {1}, {NoDifficulty})

\* time passes between two handlers; new Date() gives lastPlayed
ElapseStats == ElapseTo(MaxLedgerNow)

NextStats ==
  \/ updateStats
  \/ resetStats
  \/ ElapseStats

SpecStats == InitStats /\ [][NextStats]_vars

\* ------------------------------------------------ Home, getHighScores
\* Home mounts: useHighScores and useQuizStats read their keys, the first
\* effect parses the saved quizmaster_useAPI and the save effect writes the
\* preference back; an error thrown in the effect takes the page down
LoadSavedPreferences(w) ==
  LET savedUseAPI == w.storedItems["quizmaster_useAPI"]
      read == [w EXCEPT
                 !.home = [mounted |-> TRUE, found |-> w.storedItems,
                           highScores |-> ReadStored(w.storedItems["quizmaster_scores"],
                                                     InitialValue["quizmaster_scores"]),
                           stats |-> ReadStored(w.storedItems["quizmaster_stats"],
                                                InitialValue["quizmaster_stats"]),
                           useAPI |-> InitialValue["quizmaster_useAPI"]]]
  IN IF savedUseAPI = NoItem
     THEN [read EXCEPT !.storedItems["quizmaster_useAPI"] = read.home.useAPI]
     ELSE IF ParseThrows(savedUseAPI)
     THEN [w EXCEPT !.fault = TRUE, !.home.found = w.storedItems]
     ELSE [read EXCEPT !.home.useAPI = JSONParse(savedUseAPI),
                       !.storedItems["quizmaster_useAPI"] = JSONParse(savedUseAPI)]

MountHome ==
  /\ ~home.mounted
  /\ Install(LoadSavedPreferences(Begin("MountHome", FALSE)))

\* utils: getHighScores()
getHighScores ==
  /\ Install([Begin("getHighScores", FALSE) EXCEPT
                !.scoresRead = ReadStored(storedItems["quizmaster_scores"], "[]")])

\* the user leaves the Home page
LeaveHome ==
  /\ home.mounted
  /\ Install([Begin("LeaveHome", TRUE) EXCEPT !.home = NotMounted])

InitReads ==
  /\ highScores = <<>>
  /\ storedScores = <<>>
  /\ topPercentages = [p \in Percentages |-> 0]
  /\ stats = initialStats
  /\ statsLog = <<>>
  /\ InitStorage(Items)
  /\ InitAPI({}, {})
  /\ InitSession({FALSE}, {1}, {NoDifficulty})

NextReads ==
  \/ MountHome
  \/ getHighScores
  \/ LeaveHome

SpecReads == InitReads /\ [][NextReads]_vars

\* ---- the functions useQuiz returns, called by its user in any state
\* setStartTime(new Date()) always renders again
CallStartQuiz ==
  /\ mounted /\ addScoreCalls < MaxSaves
  /\ Install(Commit(World, startQuiz(Begin("startQuiz", TRUE))))

\* a call that sets no state renders nothing
Called(w) == IF HookState(w) = HookState(World) THEN w ELSE Commit(World, w)

CallSelectAnswer ==
  /\ mounted
  /\ \E answerIndex \in {0} :
       Install(Called(selectAnswer(Closure(World), answerIndex,
                                   Begin("selectAnswer", TRUE))))

CallPreviousQuestion ==
  /\ mounted /\ addScoreCalls < MaxSaves
  /\ Install(Called(previousQuestion(Closure(World),
                                     Begin("previousQuestion", TRUE))))

CallNextQuestion ==
  /\ mounted /\ addScoreCalls < MaxSaves
  /\ LET w == nextQuestion(Closure(World), Begin("nextQuestion", TRUE))
     IN Install(IF w.justFinished THEN Commit(World, w) ELSE Called(w))

TickHook == TickTo(MaxHookNow)

\* a local session driven through the functions useQuiz returns
InitHook == InitWith({FALSE}, 1..MaxAmount, {NoDifficulty, "hard"})

NextHook ==
  \/ MountQuiz
  \/ CallStartQuiz
  \/ CallSelectAnswer
  \/ CallNextQuestion
  \/ CallPreviousQuestion
  \/ TimerTick
  \/ TimeUpCallback
  \/ Rerender
  \/ NavigateToResults
  \/ TickHook

SpecHook == InitHook /\ [][NextHook]_vars

TypeOK ==
  /\ currentQuestionIndex \in Int
  /\ timeRemaining \in 0..MaxTimeLimit
  /\ now \in 0..MaxNow

\* ---------------------------------------------------------------- claims
TimerEvents == {"TimerTick", "TimeUpCallback"}
LoadEvents == {"MountQuiz", "restartQuiz", "FetchSucceeds", "FetchFails"}

\* C1: when finishQuiz completes the session, the score (in the state and in
\* the returned Result) is the number of questions whose recorded answer at
\* that moment equals correctAnswer, and total is the number of questions.
C1_ScoreCountsRecordedAnswers ==
  justFinished =>
    /\ score = CorrectCount(questions, selectedAnswers)
    /\ lastResult.score = CorrectCount(questions, selectedAnswers)
    /\ lastResult.total = Len(questions)

\* C2: a completed session has handed its result to addScore exactly once
\* and to updateStats exactly once, whatever re-renders follow.
C2_HandoffExactlyOnce ==
  /\ addScoreCalls = (IF quizCompleted THEN 1 ELSE 0)
  /\ updateStatsCalls = (IF quizCompleted THEN 1 ELSE 0)

\* C3: once the auto-advance of a timer expiry has run (no input in
\* between), a session that expired on a question other than the last is
\* exactly one question further with the full time and a running timer, and
\* one that expired on the last question is completed.
C3_ExpiryAdvancesByOne ==
  (event = "TimeUpCallback" /\ ~inputSinceExpiry) =>
    IF expiredIndex < Len(questions) - 1
    THEN /\ currentQuestionIndex = expiredIndex + 1
         /\ timeRemaining = options.timeLimit
         /\ timerActive
    ELSE quizCompleted

\* C4: with at least one question, currentQuestionIndex is an index of
\* questions, so currentQuestion is defined.
C4_IndexInRange ==
  Len(questions) > 0 =>
    (currentQuestionIndex >= 0 /\ currentQuestionIndex < Len(questions))

\* C5: every question of the session has options, and its correctAnswer is
\* an integer index into them.
C5_CorrectAnswerIsIndex ==
  \A i \in 1..Len(questions) :
    /\ Len(questions[i].options) > 0
    /\ questions[i].correctAnswer.t = "number"
    /\ questions[i].correctAnswer.v >= 0
    /\ questions[i].correctAnswer.v < Len(questions[i].options)

\* C6: a load that ends with a usable question list ends with exactly the
\* requested number of questions.
C6_ExactlyRequestedAmount ==
  (~isLoading /\ Len(questions) > 0) => Len(questions) = options.amount

\* C7: a finishQuiz after completion returns the Result of the completing
\* call and leaves endTime as that call set it.
C7_FinishIdempotent ==
  quizCompleted => (lastResult = firstResult /\ endTime = completedAt)

\* C8: a timer callback that fires after completion, after a restart that
\* followed its scheduling, or after the page was left, changes none of
\* currentQuestionIndex, timeRemaining, timerActive, endTime, quizCompleted.
C8_NoStaleTimerCallback ==
  [][(event' \in TimerEvents /\ (quizCompleted \/ firedStale' \/ ~mounted))
       => UNCHANGED <<currentQuestionIndex, timeRemaining, timerActive,
                      endTime, quizCompleted>>]_vars

\* C9: after a failed remote fetch with a non-empty local dataset the
\* fallback questions are loaded and the page is not on its error screen.
C9_FallbackLeavesSessionUsable ==
  (event = "FetchFails" /\ Len(questionsData) > 0) =>
    (Len(questions) > 0 /\ Screen(World) # "error")

\* C10: when a load started by restartQuiz has delivered questions, the
\* session is at question 0 with no answers, not completed, the timer
\* stopped and the full time remaining.
C10_RestartResets ==
  (restarts > 0 /\ event \in LoadEvents /\ ~isLoading /\ Len(questions) > 0) =>
    /\ currentQuestionIndex = 0
    /\ selectedAnswers = NoAnswers
    /\ ~quizCompleted
    /\ ~timerActive
    /\ timeRemaining = options.timeLimit

\* the session is running: questions loaded, begun with startQuiz, not completed
Running ==
  /\ ~isLoading /\ error = NoError /\ Len(questions) > 0
  /\ startTime # NoDate /\ ~quizCompleted

\* the session is ready: questions loaded, not yet begun, not completed
Ready ==
  /\ ~isLoading /\ error = NoError /\ Len(questions) > 0
  /\ startTime = NoDate /\ ~quizCompleted

\* C11: selectAnswer called while the session is not running (before
\* startQuiz, after completion, or with no questions loaded) leaves
\* selectedAnswers unchanged and does not throw.
C11_SelectOnlyWhileRunning ==
  [][(event' \in {"selectAnswer", "handleAnswerSelect"} /\ ~Running)
       => (selectedAnswers' = selectedAnswers /\ ~fault')]_vars

\* C12: startQuiz called outside the ready state (loading, errored, no
\* questions, already running, completed) neither activates the timer nor
\* overwrites startTime.
C12_StartOnlyFromReady ==
  [][(event' \in {"startQuiz", "handleStartQuiz"} /\ ~Ready)
       => UNCHANGED <<timerActive, startTime>>]_vars

\* C13: previousQuestion moves one question back and resets timeRemaining
\* only when currentQuestionIndex > 0 and the session is not completed;
\* otherwise it leaves both unchanged; it never changes selectedAnswers.
C13_PreviousOnlyWhenAllowed ==
  [][event' \in {"previousQuestion", "handlePrevious"} =>
       /\ selectedAnswers' = selectedAnswers
       /\ IF currentQuestionIndex > 0 /\ ~quizCompleted
          THEN /\ currentQuestionIndex' = currentQuestionIndex - 1
               /\ timeRemaining' = options.timeLimit
          ELSE UNCHANGED <<currentQuestionIndex, timeRemaining>>]_vars

\* question, options, correctAnswer of a question: all but its id
Content(q) == [difficulty |-> q.difficulty, options |-> q.options,
               correctAnswer |-> q.correctAnswer]

\* the local load met a filtered pool smaller than the requested amount
SmallPoolLoaded ==
  /\ event = "MountQuiz" /\ ~options.useAPI
  /\ Len(filteredQuestions(options.difficulty)) > 0
  /\ Len(filteredQuestions(options.difficulty)) < options.amount

\* C14: a local load from a filtered pool of 0 < M < N questions delivers
\* exactly N questions whose ids are exactly 1..N and whose contents are
\* contents of questions of the filtered pool.
C14_SmallPoolRepeats ==
  SmallPoolLoaded =>
    /\ Len(questions) = options.amount
    /\ {questions[i].id : i \in 1..Len(questions)} = 1..options.amount
    /\ \A i \in 1..Len(questions) :
         \E k \in 1..Len(filteredQuestions(options.difficulty)) :
           Content(questions[i]) = Content(filteredQuestions(options.difficulty)[k])

C14_Witness ==
  SmallPoolLoaded /\ Len(questions) = MaxAmount /\ questions[MaxAmount].id = MaxAmount

\* the questions of the session were just supplied from the local dataset
SuppliedLocally ==
  \/ event = "MountQuiz" /\ ~options.useAPI
  \/ event = "FetchFails"

\* C15: with a difficulty filter set, every question supplied from the
\* local dataset (local mode or offline fallback) has that difficulty.
C15_LocalQuestionsMatchDifficulty ==
  (SuppliedLocally /\ options.difficulty # NoDifficulty) =>
    \A i \in 1..Len(questions) : questions[i].difficulty = options.difficulty

\* C16: after a remote fetch that failed as rate-limited the error the
\* session shows is classified rate-limit and not network; after one that
\* failed as a transport failure it is classified network and not rate-limit.
C16_ErrorKindsStayDistinct ==
  event = "FetchFails" =>
    /\ fetchError = RateLimitMessage =>
         (isRateLimitError(error) /\ ~isNetworkError(error))
    /\ fetchError = NetworkMessage =>
         (isNetworkError(error) /\ ~isRateLimitError(error))

RateLimitedResponses == {"429", "code5"}

\* C17: fetchQuestionsWithRetry attempts again only after a rate-limited
\* attempt: every attempt but the last was rate-limited, and an attempt
\* that failed otherwise ended the call with that error, no request after it.
C17_RetryOnlyAfterRateLimit ==
  \A i \in DOMAIN calls :
    LET o == calls[i].outcomes IN
    /\ \A j \in 1..(Len(o) - 1) : o[j] \in RateLimitedResponses
    /\ (Len(o) > 0 /\ o[Len(o)] \notin RateLimitedResponses \cup {"ok"}) =>
         /\ calls[i].pc = "thrown"
         /\ calls[i].thrown = Rethrown(Thrown(o[Len(o)]))
         /\ calls[i].requested = Len(o)

C17_Witness ==
  \E i \in DOMAIN calls :
    /\ Len(calls[i].outcomes) = 2 /\ calls[i].maxRetries = MaxRetries
    /\ calls[i].outcomes[2] = "rejected" /\ calls[i].pc = "thrown"

\* C18: a call with maxRetries = K issues at most K requests; it returns the
\* questions of the first successful attempt j <= K after j - 1 rate-limited
\* ones, and after K rate-limited attempts it fails with the rate-limit
\* error without a further request.
C18_AtMostMaxRetriesAttempts ==
  \A i \in DOMAIN calls :
    LET c == calls[i]
        o == c.outcomes
    IN /\ c.requested <= c.maxRetries
       /\ (Len(o) > 0 /\ o[Len(o)] = "ok") =>
            (c.pc = "returned" /\ c.returned = Len(o))
       /\ (Len(o) = c.maxRetries /\ \A j \in 1..Len(o) : o[j] \in RateLimitedResponses) =>
            (c.pc = "thrown" /\ c.thrown = RateLimitMessage /\ c.requested = c.maxRetries)

C18_Witness ==
  \E i \in DOMAIN calls :
    /\ calls[i].maxRetries = MaxRetries /\ calls[i].pc = "thrown"
    /\ Len(calls[i].outcomes) = MaxRetries /\ calls[i].thrown = RateLimitMessage

\* C19: any two outbound requests are issued at least MIN_REQUEST_INTERVAL
\* apart, also when calls overlap inside rateLimitedFetch.
C19_RequestsSpacedApart ==
  \A j \in 1..Len(requestLog) : \A k \in 1..Len(requestLog) :
    j < k => requestLog[k] - requestLog[j] >= MIN_REQUEST_INTERVAL

\* C20: the high-score list has at most 10 entries, is sorted by percentage
\* in descending order and holds, of every percentage, as many entries as
\* belong to the 10 highest of all recorded since the ledger was empty;
\* getBestScore is an entry of the highest percentage, or none when empty.
C20_LedgerKeepsTopTen ==
  /\ Len(highScores) <= MaxHighScores
  /\ \A j \in 1..(Len(highScores) - 1) :
       highScores[j].percentage >= highScores[j + 1].percentage
  /\ \A p \in Percentages :
       Cardinality({j \in 1..Len(highScores) : highScores[j].percentage = p})
         = topPercentages[p]
  /\ IF Len(highScores) = 0 THEN getBestScore = NoScore
     ELSE \A j \in 1..Len(highScores) :
            getBestScore.percentage >= highScores[j].percentage

\* C21 as stated: among ledger entries of equal percentage, the one recorded
\* most recently stands ahead of the older ones.
C21_NewestFirstAmongTies ==
  \A j \in 1..Len(highScores) : \A k \in 1..Len(highScores) :
    (j < k /\ highScores[j].percentage = highScores[k].percentage) =>
      highScores[j].id >= highScores[k].id

\* C21: among ledger entries of equal percentage, the one recorded most
\* recently stands behind the older ones: addScore appends the new entry
\* and the sort keeps the order of equal percentages.
C21_OldestFirstAmongTies ==
  \A j \in 1..Len(highScores) : \A k \in 1..Len(highScores) :
    (j < k /\ highScores[j].percentage = highScores[k].percentage) =>
      highScores[j].id <= highScores[k].id

C21_Witness ==
  \E j \in 1..Len(highScores) : \E k \in 1..Len(highScores) :
    /\ j < k /\ highScores[j].percentage = highScores[k].percentage
    /\ highScores[j].id < highScores[k].id

\* the stats the rule of C22 gives after the calls of log, from fresh stats
RECURSIVE StatsByRule(_)
StatsByRule(log) ==
  IF log = <<>> THEN initialStats
  ELSE LET previous == StatsByRule(SubSeq(log, 1, Len(log) - 1))
           result == log[Len(log)]
           questionsNow == previous.totalQuestions + result.total
           correctNow == previous.totalCorrect + result.score
           streak == IF result.percentage >= 70 THEN previous.currentStreak + 1 ELSE 0
       IN [totalQuizzes |-> previous.totalQuizzes + 1,
           totalQuestions |-> questionsNow,
           totalCorrect |-> correctNow,
           averageScore |-> (200 * correctNow + questionsNow) \div (2 * questionsNow),
           bestStreak |-> IF previous.bestStreak > streak THEN previous.bestStreak ELSE streak,
           currentStreak |-> streak,
           timeSpent |-> previous.timeSpent + result.timeTaken,
           lastPlayed |-> NoDate]

StatFields ==
  {"totalQuizzes", "totalQuestions", "totalCorrect", "averageScore",
   "bestStreak", "currentStreak", "timeSpent"}

\* C22: the stats are those the rule gives, applied once for every
\* updateStats call since the stats were fresh (totals added up, average
\* rounded over the new totals, streak + 1 from 70 percent on and else 0,
\* best streak the maximum); so bestStreak >= currentStreak, and after the
\* percentages 80, 50, 90 currentStreak = 1 and bestStreak = 1.
C22_StatsFollowEveryUpdate ==
  /\ \A f \in StatFields : stats[f] = StatsByRule(statsLog)[f]
  /\ stats.bestStreak >= stats.currentStreak
  /\ (Len(statsLog) = 3 /\ statsLog[1].percentage = 80
        /\ statsLog[2].percentage = 50 /\ statsLog[3].percentage = 90) =>
       (stats.currentStreak = 1 /\ stats.bestStreak = 1)

Unparseable(item) == item # NoItem /\ ParseThrows(item)

\* C23: reading a stored value that does not parse (the high scores, the
\* stats or the quizmaster_useAPI preference) raises no fault, and the
\* reader gets the default it gets when the key is absent.
C23_UnparseableReadsFallBack ==
  /\ ~fault
  /\ home.mounted =>
       \A k \in StorageKeys :
         Unparseable(home.found[k]) =>
           /\ k = "quizmaster_scores" => home.highScores = InitialValue[k]
           /\ k = "quizmaster_stats" => home.stats = InitialValue[k]
           /\ k = "quizmaster_useAPI" => home.useAPI = InitialValue[k]
  /\ (event = "getHighScores" /\ Unparseable(storedItems["quizmaster_scores"])) =>
       scoresRead = "[]"

\* C24: in every completed state the percentage of finishQuiz's return value
\* and of quizResults is an integer of 0..100, round(100 * score / total),
\* and 0 when the session has no questions.
C24_PercentageIsRoundedShare ==
  quizCompleted =>
    \A r \in {lastResult, quizResults(World)} :
      /\ r.percentage \in 0..100
      /\ r.percentage = IF r.total = 0 THEN 0
                        ELSE (200 * r.score + r.total) \div (2 * r.total)

ClassifiedMessages ==
  {RateLimitMessage, NoResultsMessage, InvalidParameterMessage, NetworkMessage}

\* the error C25 names for a response
ErrorFor(response) ==
  CASE response \in {"429", "code5"} -> {RateLimitMessage}
    [] response = "code1" -> {NoResultsMessage}
    [] response = "code2" -> {InvalidParameterMessage}
    [] response \in {"rejected", "rejectedFirefox", "rejectedSafari"} -> {NetworkMessage}
    [] OTHER -> {HttpErrorMessage, TokenNotFound}

\* C25: a call of one attempt returns questions only for an ok response of
\* response_code 0 and otherwise fails with the error of the response's
\* class: rate limit for 429 and code 5, no results for code 1, invalid
\* parameters for code 2, a provider error for other codes and statuses,
\* the network error for a fetch that got no response.
C25_FailuresAreClassified ==
  \A i \in DOMAIN calls :
    LET c == calls[i]
    IN (Len(c.outcomes) > 0 /\ c.maxRetries = 1) =>
         IF c.outcomes[1] = "ok" THEN c.pc = "returned"
         ELSE c.pc = "thrown" /\ c.thrown \in ErrorFor(c.outcomes[1])

\* C26: in every completed state the score of quizResults is the number of
\* entries of its results list with isCorrect, also when an answer was
\* selected or changed while the finish was pending.
C26_ScoreCountsCorrectResults ==
  quizCompleted =>
    LET r == quizResults(World)
    IN r.score = Cardinality({j \in 1..Len(r.results) : r.results[j].isCorrect})

\* C27: when a loadQuestions call is made while an earlier one still awaits
\* its fetch, the end of the earlier call changes neither the questions, the
\* error, the loading flag nor the session state, whichever ends last.
C27_EarlierLoadChangesNothing ==
  [][(event' \in LoadEvents /\ staleOutcome') =>
       UNCHANGED <<questions, error, isLoading, currentQuestionIndex,
                   selectedAnswers, quizCompleted, score, timeRemaining,
                   timerActive, startTime, endTime>>]_vars

\* C28: every addScore call is reflected in the ledger, also when a handler
\* makes two calls before the hook renders again: the rendered list and the
\* persisted value hold, of every percentage, as many entries as belong to
\* the 10 highest of all that were recorded since the ledger was empty.
C28_EveryCallIsReflected ==
  \A list \in {highScores, storedScores} : \A p \in Percentages :
    Cardinality({j \in 1..Len(list) : list[j].percentage = p}) = topPercentages[p]

\* what the user does on the Quiz page after the start
UserInputs ==
  {"handleAnswerSelect", "QuestionHandleNext", "handlePrevious",
   "handleSkip", "confirmExit"}

\* the quiz has just been begun, with questions and time to answer, early
\* enough for the clock that is followed to cover every question's
\* countdown and auto-advance delay
BegunInTime ==
  /\ event = "handleStartQuiz" /\ timerActive
  /\ Len(questions) > 0 /\ timeRemaining > 0
  /\ now + Len(questions) * (options.timeLimit + 1) - 1 <= MaxNow

\* C29: once the quiz is begun with a non-empty question list and a positive
\* time limit, the session reaches completed unless the user gives further
\* input, provided the scheduled timer callbacks keep firing.
C29_TimersCompleteTheSession ==
  BegunInTime ~> (quizCompleted \/ event \in UserInputs)

C29_Witness ==
  /\ quizCompleted /\ event = "TimerTick" /\ justFinished
  /\ Len(questions) = MaxAmount
  /\ \A i \in 1..Len(questions) : selectedAnswers[questions[i].id] = Undefined

\* C30: the Results page reached from the Quiz page flags a new high score
\* exactly when the session's percentage is greater than every percentage
\* recorded before the session, or nothing was recorded before.
C30_NewHighScoreIsFlagged ==
  (event = "QuizToResults" /\ resultsPage.shown) =>
    (resultsPage.isNewHighScore <=> resultsPage.percentage > resultsPage.bestBefore)
====
